---- MODULE Spec2Model ----
(***************************************************************************)
(* Forest-change dashboard: the row normalizer, dataset cleaner, filter,   *)
(* aggregator and projection engine of src/utils/data-parser.ts, the       *)
(* upload widget of components/dashboard/FileUpload.tsx and the page state *)
(* of pages/Dashboard.tsx.                                                  *)
(*                                                                         *)
(* Values are modelled as the run-time values they are: a field of a row   *)
(* object is undefined, a string or a number, and a number is an exact     *)
(* rational, NaN, +Infinity or -Infinity (binary rounding is not           *)
(* modelled; every amount of the model is a small integer or a quotient of *)
(* small integers).                                                         *)
(***************************************************************************)
EXTENDS Integers, Sequences, FiniteSets, TLC

(***************************************************************************)
(* Bounds of the model.                                                    *)
(***************************************************************************)
\* longest record collection drawn as the input of a core operation
MaxLen == 2
\* longest record collection drawn as the input of the projection engine
MaxProjLen == 3
\* longest list of row objects drawn as the input of the row normalizer
MaxRawLen == 1
\* number of dropped files whose decoding is in progress at one time
MaxPending == 2
\* number of files a user drops in one behaviour of the page
MaxDrops == 2

\* new Date().getFullYear() at the time of the run
CurrentYear == 2026

(***************************************************************************)
(* Numbers: exact rationals n/d (d > 0, lowest terms) and the three        *)
(* special values of an IEEE double.                                        *)
(***************************************************************************)
Abs(i) == IF i < 0 THEN -i ELSE i

RECURSIVE Gcd(_, _)
Gcd(a, b) == IF b = 0 THEN a ELSE Gcd(b, a % b)

Rat(n, d) ==
  LET Reduced(s, g) == [k |-> "fin", n |-> (s * n) \div g, d |-> (s * d) \div g]
  IN  Reduced(IF d < 0 THEN -1 ELSE 1, Gcd(Abs(n), Abs(d)))

Fin(i) == [k |-> "fin", n |-> i, d |-> 1]
NaN == [k |-> "nan", n |-> 0, d |-> 1]
PosInf == [k |-> "inf", n |-> 1, d |-> 1]
NegInf == [k |-> "inf", n |-> -1, d |-> 1]
Zero == Fin(0)

Sign(a) == IF a.n > 0 THEN 1 ELSE IF a.n < 0 THEN -1 ELSE 0

NNeg(a) == IF a.k = "nan" THEN NaN ELSE [a EXCEPT !.n = -a.n]

NAdd(a, b) ==
  IF a.k = "nan" \/ b.k = "nan" THEN NaN
  ELSE IF a.k = "inf" /\ b.k = "inf" THEN (IF a.n = b.n THEN a ELSE NaN)
  ELSE IF a.k = "inf" THEN a
  ELSE IF b.k = "inf" THEN b
  ELSE Rat(a.n * b.d + b.n * a.d, a.d * b.d)

NSub(a, b) == NAdd(a, NNeg(b))

NMul(a, b) ==
  IF a.k = "nan" \/ b.k = "nan" THEN NaN
  ELSE IF a.k = "inf" \/ b.k = "inf"
       THEN (IF Sign(a) * Sign(b) = 0 THEN NaN
             ELSE IF Sign(a) * Sign(b) > 0 THEN PosInf ELSE NegInf)
  ELSE Rat(a.n * b.n, a.d * b.d)

NDiv(a, b) ==
  IF a.k = "nan" \/ b.k = "nan" THEN NaN
  ELSE IF a.k = "inf" /\ b.k = "inf" THEN NaN
  ELSE IF a.k = "inf"
       THEN (IF Sign(a) * (IF Sign(b) < 0 THEN -1 ELSE 1) > 0 THEN PosInf ELSE NegInf)
  ELSE IF b.k = "inf" THEN Zero
  ELSE IF b.n = 0
       THEN (IF a.n = 0 THEN NaN ELSE IF a.n > 0 THEN PosInf ELSE NegInf)
  ELSE Rat(a.n * b.d, a.d * b.n)

\* a < b on numbers; every comparison with NaN is false
NLt(a, b) ==
  IF a.k = "nan" \/ b.k = "nan" THEN FALSE
  ELSE IF a.k = "inf" /\ b.k = "inf" THEN a.n < b.n
  ELSE IF a.k = "inf" THEN a.n < 0
  ELSE IF b.k = "inf" THEN b.n > 0
  ELSE a.n * b.d < b.n * a.d

NGt(a, b) == NLt(b, a)
\* a === b on numbers (NaN is not equal to itself)
NEq(a, b) == a.k # "nan" /\ b.k # "nan" /\ a = b
NLe(a, b) == NLt(a, b) \/ NEq(a, b)
NGe(a, b) == NLe(b, a)

\* Math.max(0, x)
MathMax0(x) == IF x.k = "nan" THEN NaN ELSE IF NLt(x, Zero) THEN Zero ELSE x
\* Math.floor(x)
MathFloor(x) == IF x.k = "fin" THEN Fin(x.n \div x.d) ELSE x
\* Math.round(x): the nearest integer, halves towards +Infinity
MathRound(x) == IF x.k = "fin" THEN Fin((2 * x.n + x.d) \div (2 * x.d)) ELSE x

(***************************************************************************)
(* Strings: a string is a TLA+ string, read character by character.        *)
(***************************************************************************)
Ch(s, i) == SubSeq(s, i, i)

Digits == "0123456789"
UpperChars == "ABCDEFGHIJKLMNOPQRSTUVWXYZ"
LowerChars == "abcdefghijklmnopqrstuvwxyz"
\* the characters of the model's strings in UTF-16 code unit order
CodeOrder == "\t +-./0123456789;ABCDEFGHIJKLMNOPQRSTUVWXYZ_abcdefghijklmnopqrstuvwxyz"

\* whether the character c is in the alphabet a, and where
In(a, c) == \E i \in 1..Len(a) : Ch(a, i) = c
IndexOf(a, c) == CHOOSE i \in 1..Len(a) : Ch(a, i) = c

IsDigit(c) == In(Digits, c)
DigitVal(c) == IndexOf(Digits, c) - 1
IsWordChar(c) == In(Digits, c) \/ In(UpperChars, c) \/ In(LowerChars, c) \/ c = "_"

\* the lower-case letter of each upper-case letter
LowerOf ==
  [c \in {Ch(UpperChars, i) : i \in 1..Len(UpperChars)} |->
     Ch(LowerChars, IndexOf(UpperChars, c))]

RECURSIVE LowerFrom(_, _)
LowerFrom(s, i) ==
  IF i > Len(s) THEN ""
  ELSE LET Lower(c) == IF c \in DOMAIN LowerOf THEN LowerOf[c] ELSE c
       IN  Lower(Ch(s, i)) \o LowerFrom(s, i + 1)

\* String.prototype.toLowerCase
toLowerCase(s) == LowerFrom(s, 1)

\* String.prototype.includes
includes(s, sub) ==
  \E i \in 1..(Len(s) - Len(sub) + 1) : SubSeq(s, i, i + Len(sub) - 1) = sub

RECURSIVE SpacesFrom(_, _)
SpacesFrom(s, i) == IF i <= Len(s) /\ Ch(s, i) = " " THEN 1 + SpacesFrom(s, i + 1) ELSE 0

RECURSIVE SpacesBefore(_, _)
SpacesBefore(s, i) == IF i >= 1 /\ Ch(s, i) = " " THEN 1 + SpacesBefore(s, i - 1) ELSE 0

\* the string without its leading white space
trimStart(s) == SubSeq(s, SpacesFrom(s, 1) + 1, Len(s))

\* String.prototype.trim
trim(s) ==
  LET Inner(a) == IF a = Len(s) THEN "" ELSE SubSeq(s, a + 1, Len(s) - SpacesBefore(s, Len(s)))
  IN  Inner(SpacesFrom(s, 1))

RECURSIVE DigitsLen(_, _)
DigitsLen(s, i) == IF i <= Len(s) /\ IsDigit(Ch(s, i)) THEN 1 + DigitsLen(s, i + 1) ELSE 0

RECURSIVE DigitsVal(_, _, _)
DigitsVal(s, i, k) ==
  IF k = 0 THEN 0 ELSE DigitsVal(s, i, k - 1) * 10 + DigitVal(Ch(s, i + k - 1))

RECURSIVE Pow10(_)
Pow10(k) == IF k = 0 THEN 1 ELSE 10 * Pow10(k - 1)

\* The decimal literal at the head of t (sign, digits, fraction; exponents and
\* the word Infinity are outside the model's inputs): its value, whether
\* there is one, and the position after it.
\* neg: a minus sign leads; p: where the digits start; k1, k2: the numbers of
\* digits before and after the point; dot: there is a point
DecimalLiteral(t, neg, p, k1, dot, k2) ==
  IF k1 + k2 >= 1
  THEN [ok  |-> TRUE,
        val |-> Rat((IF neg THEN -1 ELSE 1)
                      * (DigitsVal(t, p, k1) * Pow10(k2) + DigitsVal(t, p + k1 + 1, k2)),
                    Pow10(k2)),
        end |-> p + k1 + (IF dot THEN 1 + k2 ELSE 0)]
  ELSE [ok |-> FALSE, val |-> NaN, end |-> 1]

DecimalFraction(t, neg, p, k1) ==
  DecimalLiteral(t, neg, p, k1, p + k1 <= Len(t) /\ Ch(t, p + k1) = ".",
                 IF p + k1 <= Len(t) /\ Ch(t, p + k1) = "."
                 THEN DigitsLen(t, p + k1 + 1) ELSE 0)

DecimalDigits(t, neg, p) == DecimalFraction(t, neg, p, DigitsLen(t, p))

DecimalPrefix(t) ==
  DecimalDigits(t, Len(t) >= 1 /\ Ch(t, 1) = "-",
                IF Len(t) >= 1 /\ Ch(t, 1) \in {"-", "+"} THEN 2 ELSE 1)

\* the k digits of the natural number n, zero-padded on the left
RECURSIVE PadDigits(_, _)
PadDigits(n, k) ==
  IF k = 0 THEN "" ELSE PadDigits(n \div 10, k - 1) \o Ch(Digits, (n % 10) + 1)

\* decimal representation of a number (Number.prototype.toString); a quotient
\* with no finite decimal expansion is outside the model's inputs and is
\* written n/d
NumToString(x) ==
  IF x.k = "nan" THEN "NaN"
  ELSE IF x.k = "inf" THEN (IF x.n > 0 THEN "Infinity" ELSE "-Infinity")
  ELSE IF x.d = 1 THEN ToString(x.n)
  ELSE IF \E k \in 1..6 : Pow10(k) % x.d = 0
       THEN LET \* x written with k decimals
                Fixed(k) ==
                  (IF x.n < 0 THEN "-" ELSE "")
                  \o ToString((Abs(x.n) * (Pow10(k) \div x.d)) \div Pow10(k)) \o "."
                  \o PadDigits((Abs(x.n) * (Pow10(k) \div x.d)) % Pow10(k), k)
            IN  Fixed(CHOOSE j \in 1..6 :
                        Pow10(j) % x.d = 0 /\ \A h \in 1..(j - 1) : Pow10(h) % x.d # 0)
       ELSE ToString(x.n) \o "/" \o ToString(x.d)

\* a < b in the order of the default sort (code units, a prefix first)
RECURSIVE StrLtFrom(_, _, _)
StrLtFrom(a, b, i) ==
  IF i > Len(b) THEN FALSE
  ELSE IF i > Len(a) THEN TRUE
  ELSE IF Ch(a, i) = Ch(b, i) THEN StrLtFrom(a, b, i + 1)
  ELSE IndexOf(CodeOrder, Ch(a, i)) < IndexOf(CodeOrder, Ch(b, i))

(***************************************************************************)
(* Run-time values: undefined, a string or a number.                       *)
(***************************************************************************)
Undef == [typ |-> "undefined", str |-> "", num |-> Zero]
Null == [typ |-> "null", str |-> "", num |-> Zero]
Str(s) == [typ |-> "string", str |-> s, num |-> Zero]
Num(x) == [typ |-> "number", str |-> "", num |-> x]
Int2V(i) == Num(Fin(i))

\* truthiness of a value in a condition
Truthy(v) ==
  CASE v.typ \in {"undefined", "null"} -> FALSE
    [] v.typ = "string" -> v.str # ""
    [] v.typ = "number" -> v.num.k # "nan" /\ v.num # Zero

\* String(v)
String(v) ==
  CASE v.typ = "undefined" -> "undefined"
    [] v.typ = "null" -> "null"
    [] v.typ = "string" -> v.str
    [] v.typ = "number" -> NumToString(v.num)

\* Number(v): the whole trimmed string has to be a literal; "" is 0
Number(v) ==
  CASE v.typ = "undefined" -> NaN
    [] v.typ = "null" -> Zero
    [] v.typ = "number" -> v.num
    [] v.typ = "string" ->
         LET Entire(t, r) ==
               IF t = "" THEN Zero ELSE IF r.ok /\ r.end = Len(t) + 1 THEN r.val ELSE NaN
         IN  Entire(trim(v.str), DecimalPrefix(trim(v.str)))

\* parseFloat(v): the longest literal at the head of String(v)
parseFloat(v) ==
  IF v.typ = "number" THEN v.num
  ELSE DecimalPrefix(trimStart(String(v))).val

\* a === b
StrictEq(a, b) ==
  /\ a.typ = b.typ
  /\ CASE a.typ \in {"undefined", "null"} -> TRUE
       [] a.typ = "string" -> a.str = b.str
       [] a.typ = "number" -> NEq(a.num, b.num)

\* isNaN(v): the global function, which converts its argument to a number
isNaN(v) == Number(v).k = "nan"
\* isFinite(x) of a number
isFinite(x) == x.k = "fin"
\* x || 0 on a number
OrZero(x) == IF x.k = "nan" \/ x = Zero THEN Zero ELSE x

(***************************************************************************)
(* Row objects.  A raw row is the ordered list of the key/value pairs of   *)
(* an object a decoder produced (Object.keys order); a ForestData object   *)
(* is a record of the six properties the code reads, each a run-time       *)
(* value.                                                                   *)
(***************************************************************************)
Pair(key, val) == [key |-> key, val |-> val]

HasKey(row, key) == \E i \in 1..Len(row) : row[i].key = key
\* row[key]
Get(row, key) ==
  IF HasKey(row, key) THEN row[CHOOSE i \in 1..Len(row) : row[i].key = key].val ELSE Undef
\* row[key] = val: an existing property keeps its place, a new one is added last
Put(row, key, val) ==
  IF HasKey(row, key)
  THEN [i \in 1..Len(row) |-> IF row[i].key = key THEN Pair(key, val) ELSE row[i]]
  ELSE Append(row, Pair(key, val))

RECURSIVE LowerKeysFrom(_, _, _)
LowerKeysFrom(row, i, acc) ==
  IF i > Len(row) THEN acc
  ELSE LowerKeysFrom(row, i + 1, Put(acc, toLowerCase(row[i].key), row[i].val))

\* normalizedRow: the row with every key lower-cased
normalizedRowOf(row) == LowerKeysFrom(row, 1, <<>>)

stateCandidates == <<"state", "region", "area", "province", "district", "location", "territory">>
yearCandidates == <<"year", "date", "period", "time", "yr">>
deforestationCandidates ==
  <<"deforestation", "forest_loss", "treeloss", "tree_loss", "loss", "forest_decrease", "logging">>
reforestationCandidates ==
  <<"reforestation", "forest_gain", "treegain", "tree_gain", "gain", "forest_increase", "planting">>

\* Object.keys(row).find(key => candidates.some(c => key.includes(c))) || ''
RECURSIVE FindFieldFrom(_, _, _)
FindFieldFrom(row, candidates, i) ==
  IF i > Len(row) THEN ""
  ELSE IF \E j \in 1..Len(candidates) : includes(row[i].key, toLowerCase(candidates[j]))
       THEN row[i].key
       ELSE FindFieldFrom(row, candidates, i + 1)

\* FindField with the last matching key winning
FindField_LastKey(row, candidates) ==
  LET hit == {i \in 1..Len(row) :
                \E j \in 1..Len(candidates) : includes(row[i].key, toLowerCase(candidates[j]))}
  IN  IF hit = {} THEN "" ELSE row[CHOOSE i \in hit : \A k \in hit : k <= i].key

FindField(row, candidates) == FindFieldFrom(row, candidates, 1)

identifyColumnMapping(row) ==
  [stateField         |-> FindField(normalizedRowOf(row), stateCandidates),
   yearField          |-> FindField(normalizedRowOf(row), yearCandidates),
   deforestationField |-> FindField(normalizedRowOf(row), deforestationCandidates),
   reforestationField |-> FindField(normalizedRowOf(row), reforestationCandidates)]

isNumeric(value) ==
  IF value.typ = "number" THEN TRUE
  ELSE IF value.typ # "string" THEN FALSE
  ELSE parseFloat(value).k # "nan" /\ isFinite(Number(value))

\* new Date(s).getFullYear() for the date strings of the model's inputs, the
\* ISO forms YYYY-MM and YYYY-MM-DD; -1 stands for an invalid date
DateYear(s) ==
  IF /\ Len(s) \in {7, 10}
     /\ DigitsLen(s, 1) = 4
     /\ Ch(s, 5) = "-"
     /\ DigitsLen(s, 6) = 2
     /\ (Len(s) = 10 => Ch(s, 8) = "-" /\ DigitsLen(s, 9) = 2)
  THEN DigitsVal(s, 1, 4) ELSE -1

\* value.match(/\b(19|20)\d{2}\b/): the position of the first match, 0 if none
RECURSIVE YearMatch(_, _)
YearMatch(s, i) ==
  IF i > Len(s) - 3 THEN 0
  ELSE IF /\ SubSeq(s, i, i + 1) \in {"19", "20"}
          /\ IsDigit(Ch(s, i + 2)) /\ IsDigit(Ch(s, i + 3))
          /\ (i = 1 \/ ~IsWordChar(Ch(s, i - 1)))
          /\ (i + 3 = Len(s) \/ ~IsWordChar(Ch(s, i + 4)))
       THEN i
       ELSE YearMatch(s, i + 1)

parseYearValue(value) ==
  IF value.typ = "number" THEN MathFloor(value.num)
  ELSE IF value.typ # "string" THEN Zero
  ELSE IF isNumeric(value) THEN MathFloor(Number(value))
  ELSE LET \* y: the year of the string read as a date; at: where the year
           \* pattern matches, looked for when the string is no valid date
           Year(y, at) ==
             IF y # -1 THEN Fin(y)
             ELSE IF at # 0 THEN Fin(DigitsVal(value.str, at, 4)) ELSE Zero
       IN  Year(DateYear(value.str), YearMatch(value.str, 1))

\* the keys of the row that pass the test, in key order
RECURSIVE KeysWhere(_, _, _)
KeysWhere(row, Test(_), i) ==
  IF i > Len(row) THEN <<>>
  ELSE (IF Test(row[i]) THEN <<row[i].key>> ELSE <<>>) \o KeysWhere(row, Test, i + 1)

ForestData(id, state, year, deforestation, reforestation, netChange) ==
  [id |-> id, state |-> state, year |-> year, deforestation |-> deforestation,
   reforestation |-> reforestation, netChange |-> netChange]

\* the body of processRow once normalizedRow and the column mapping m of it
\* are known
processFields(normalizedRow, m, uuid) ==
  LET IsText(p) == p.val.typ = "string" /\ ~isNumeric(p.val)
      IsYear(p) == /\ isNumeric(p.val)
                   /\ NGe(parseFloat(p.val), Fin(1900))
                   /\ NLe(parseFloat(p.val), Fin(CurrentYear))
      IsLoss(p) == isNumeric(p.val) /\ ~includes(m.yearField, p.key)
      IsGain(p) == /\ isNumeric(p.val) /\ ~includes(m.yearField, p.key)
                   /\ p.key # m.deforestationField
      FirstText(textFields) ==
        IF textFields # <<>> THEN String(Get(normalizedRow, textFields[1])) ELSE ""
      FirstYear(yearFields) ==
        IF yearFields # <<>> THEN parseFloat(Get(normalizedRow, yearFields[1])) ELSE Zero
      FirstAmount(numericFields) ==
        IF Len(numericFields) >= 1
        THEN OrZero(parseFloat(Get(normalizedRow, numericFields[1]))) ELSE Zero
      Processed(state, year, deforestation, reforestation) ==
        ForestData(Str(uuid), Str(state), Num(year), Num(deforestation), Num(reforestation),
                   Num(NSub(reforestation, deforestation)))
  IN  Processed(
        IF m.stateField # ""
        THEN String(Get(normalizedRow, toLowerCase(m.stateField)))
        ELSE FirstText(KeysWhere(normalizedRow, IsText, 1)),
        IF m.yearField # ""
        THEN parseYearValue(Get(normalizedRow, toLowerCase(m.yearField)))
        ELSE FirstYear(KeysWhere(normalizedRow, IsYear, 1)),
        IF m.deforestationField # ""
        THEN OrZero(parseFloat(Get(normalizedRow, toLowerCase(m.deforestationField))))
        ELSE FirstAmount(KeysWhere(normalizedRow, IsLoss, 1)),
        IF m.reforestationField # ""
        THEN OrZero(parseFloat(Get(normalizedRow, toLowerCase(m.reforestationField))))
        ELSE FirstAmount(KeysWhere(normalizedRow, IsGain, 1)))

\* processRow(row), with the value uuidv4() returns for it
processRow(row, uuid) ==
  processFields(normalizedRowOf(row), identifyColumnMapping(normalizedRowOf(row)), uuid)

\* the filter predicate of preprocessData
IsValidRow(row) ==
  /\ Truthy(row.state)
  /\ ~isNaN(row.year)
  /\ NGt(Number(row.year), Fin(1900))
  /\ NLe(Number(row.year), Fin(CurrentYear))

\* the mapping of preprocessData
CleanRow(row) ==
  [row EXCEPT !.deforestation = Num(MathMax0(Number(row.deforestation))),
              !.reforestation = Num(MathMax0(Number(row.reforestation))),
              !.netChange = Num(NSub(Number(row.reforestation), Number(row.deforestation)))]

preprocessData(data) ==
  LET kept == SelectSeq(data, IsValidRow)
  IN  [i \in 1..Len(kept) |-> CleanRow(kept[i])]

\* FilterValues: state and year are a value or null, dateRange is <<>> for
\* null or a pair of numbers
FilterValues(state, year, dateRange) ==
  [state |-> state, year |-> year, dateRange |-> dateRange]

NoFilters == FilterValues(Null, Null, <<>>)

\* PassesFilters with the test for an unset region criterion left out
PassesFilters_NoRegionGuard(row, filters) ==
  /\ StrictEq(row.state, filters.state)
  /\ ~(Truthy(filters.year) /\ ~StrictEq(row.year, filters.year))
  /\ ~(/\ filters.dateRange # <<>>
       /\ \/ NLt(Number(row.year), filters.dateRange[1])
          \/ NGt(Number(row.year), filters.dateRange[2]))

\* the predicate of filterData
PassesFilters(row, filters) ==
  /\ ~(Truthy(filters.state) /\ ~StrictEq(row.state, filters.state))
  /\ ~(Truthy(filters.year) /\ ~StrictEq(row.year, filters.year))
  /\ ~(/\ filters.dateRange # <<>>
       /\ \/ NLt(Number(row.year), filters.dateRange[1])
          \/ NGt(Number(row.year), filters.dateRange[2]))

filterData(data, filters) ==
  LET keep(row) == PassesFilters(row, filters)
  IN  SelectSeq(data, keep)

(***************************************************************************)
(* Arrays: sorting (Array.prototype.sort is stable) and the first-seen     *)
(* order of the keys of a Set or a Map.                                     *)
(***************************************************************************)
RECURSIVE InsertSorted(_, _, _, _)
InsertSorted(x, s, Lt(_, _), j) ==
  IF j > Len(s) THEN Append(s, x)
  ELSE IF Lt(x, s[j]) THEN SubSeq(s, 1, j - 1) \o <<x>> \o SubSeq(s, j, Len(s))
  ELSE InsertSorted(x, s, Lt, j + 1)

RECURSIVE SortFrom(_, _, _, _)
SortFrom(s, Lt(_, _), i, acc) ==
  IF i > Len(s) THEN acc ELSE SortFrom(s, Lt, i + 1, InsertSorted(s[i], acc, Lt, 1))

\* s.sort(compare), for a comparison that orders the elements by Lt
SortBy(s, Lt(_, _)) == SortFrom(s, Lt, 1, <<>>)

\* (a, b) => a - b on values
NumericLt(a, b) == NLt(Number(a), Number(b))
\* the default comparison of sort(): by String(a) < String(b)
DefaultLt(a, b) == StrLtFrom(String(a), String(b), 1)

RECURSIVE DistinctFrom(_, _, _)
DistinctFrom(s, i, acc) ==
  IF i > Len(s) THEN acc
  ELSE DistinctFrom(s, i + 1,
         IF \E j \in 1..Len(acc) : acc[j] = s[i] THEN acc ELSE Append(acc, s[i]))

\* [...new Set(s)]
Distinct(s) == DistinctFrom(s, 1, <<>>)

RECURSIVE SumFrom(_, _, _)
SumFrom(s, F(_), i) == IF i > Len(s) THEN Zero ELSE NAdd(F(s[i]), SumFrom(s, F, i + 1))

\* s.reduce((sum, e) => sum + F(e), 0)
Sum(s, F(_)) == SumFrom(s, F, 1)

\* the amounts of a row as they stand after preprocessData (numbers)
Def(row) == Number(row.deforestation)
Ref(row) == Number(row.reforestation)
\* row.netChange || 0
NetOrZero(row) == IF Truthy(row.netChange) THEN Number(row.netChange) ELSE Zero

\* calculateMetrics with the loss counted twice over
calculateMetrics_LossTwice(data) ==
  LET Metrics(totalDeforestation, totalReforestation) ==
        [totalDeforestation |-> NAdd(totalDeforestation, totalDeforestation),
         totalReforestation |-> totalReforestation,
         netChange |-> NSub(totalReforestation, totalDeforestation)]
  IN  Metrics(Sum(data, Def), Sum(data, Ref))

calculateMetrics(data) ==
  LET Metrics(totalDeforestation, totalReforestation) ==
        [totalDeforestation |-> totalDeforestation,
         totalReforestation |-> totalReforestation,
         netChange |-> NSub(totalReforestation, totalDeforestation)]
  IN  Metrics(Sum(data, Def), Sum(data, Ref))

ChartData(name, rows) ==
  [name |-> name, deforestation |-> Sum(rows, Def), reforestation |-> Sum(rows, Ref),
   netChange |-> Sum(rows, NetOrZero)]

\* prepareStateChartData with the buckets in the order of their names
prepareStateChartData_Sorted(data) ==
  LET Charts(keys) ==
        [i \in 1..Len(keys) |->
           LET in(row) == row.state = keys[i] IN ChartData(keys[i], SelectSeq(data, in))]
  IN  Charts(SortBy(Distinct([i \in 1..Len(data) |-> data[i].state]), DefaultLt))

prepareStateChartData(data) ==
  LET \* the entries of the Map, one per key
      Charts(keys) ==
        [i \in 1..Len(keys) |->
           LET in(row) == row.state = keys[i] IN ChartData(keys[i], SelectSeq(data, in))]
  IN  Charts(Distinct([i \in 1..Len(data) |-> data[i].state]))

\* prepareYearChartData leaving the buckets in the order of the Map
prepareYearChartData_Unsorted(data) ==
  LET Charts(keys) ==
        [i \in 1..Len(keys) |->
           LET in(row) == row.year = keys[i]
           IN  ChartData(Str(String(keys[i])), SelectSeq(data, in))]
  IN  Charts(Distinct([i \in 1..Len(data) |-> data[i].year]))

prepareYearChartData(data) ==
  LET \* the entries of the Map, one per key
      Charts(keys) ==
        [i \in 1..Len(keys) |->
           LET in(row) == row.year = keys[i]
           IN  ChartData(Str(String(keys[i])), SelectSeq(data, in))]
  IN  Charts(SortBy(Distinct([i \in 1..Len(data) |-> data[i].year]), NumericLt))

extractFilterOptions(data) ==
  LET Options(states, years) ==
        [states |-> states, years |-> years,
         minYear |-> IF Len(years) > 0 THEN years[1] ELSE Undef,
         maxYear |-> IF Len(years) > 0 THEN years[Len(years)] ELSE Undef]
  IN  Options(SortBy(Distinct([i \in 1..Len(data) |-> data[i].state]), DefaultLt),
              SortBy(Distinct([i \in 1..Len(data) |-> data[i].year]), NumericLt))

\* a + b for a value a and a number b: a string operand makes it a concatenation
Plus(a, b) ==
  IF a.typ = "string" THEN Str(a.str \o NumToString(b)) ELSE Num(NAdd(Number(a), b))

RowYearLt(a, b) == NumericLt(a.year, b.year)

\* yearlyTotals: the totals of the rows of each year of years
YearlyTotals(sortedData, years) ==
  [i \in 1..Len(years) |->
     LET in(row) == StrictEq(row.year, years[i])
         Totals(yearData) ==
           [year |-> years[i], def |-> Sum(yearData, Def), ref |-> Sum(yearData, Ref)]
     IN  Totals(SelectSeq(sortedData, in))]

Benchmark(type, name, value, unit, state, period) ==
  [type |-> type, name |-> name, value |-> value, unit |-> unit, state |-> state,
   period |-> period]

\* the three benchmarks of type 'overall'
OverallBenchmarks(totalDeforestation, totalReforestation, yearCount) ==
  << Benchmark("overall", "Average Annual Deforestation",
               IF yearCount > 0 THEN NDiv(totalDeforestation, Fin(yearCount)) ELSE Zero,
               "ha/year", Undef, ""),
     Benchmark("overall", "Average Annual Reforestation",
               IF yearCount > 0 THEN NDiv(totalReforestation, Fin(yearCount)) ELSE Zero,
               "ha/year", Undef, ""),
     Benchmark("overall", "Reforestation to Deforestation Ratio",
               IF NGt(totalDeforestation, Zero)
               THEN NDiv(totalReforestation, totalDeforestation) ELSE Zero,
               "ratio", Undef, "") >>

\* statePerformance: the net change of each state
StatePerformance(sortedData, stateKeys) ==
  [i \in 1..Len(stateKeys) |->
     LET in(row) == row.state = stateKeys[i]
     IN  [state |-> stateKeys[i],
          netChange |-> NSub(Sum(SelectSeq(sortedData, in), Ref),
                             Sum(SelectSeq(sortedData, in), Def))]]

\* the benchmarks of type 'state', from the sorted statePerformance
StateBenchmarks(sortedPerformance) ==
  IF Len(sortedPerformance) > 0
  THEN << Benchmark("state", "Best Performing State", sortedPerformance[1].netChange,
                    "ha net gain", sortedPerformance[1].state, ""),
          Benchmark("state", "Most Challenged State",
                    sortedPerformance[Len(sortedPerformance)].netChange,
                    "ha net change", sortedPerformance[Len(sortedPerformance)].state, "") >>
  ELSE <<>>

\* TrendBenchmarks asking for one year only
TrendBenchmarks_OneYear(years, yearlyTotals) ==
  LET Change(first, last) == NMul(NDiv(NSub(last, first), first), Fin(100))
      Trends(first, last) ==
        << Benchmark("trend", "Deforestation Trend", Change(first.def, last.def),
                     "% change", Undef, String(first.year) \o "-" \o String(last.year)),
           Benchmark("trend", "Reforestation Trend", Change(first.ref, last.ref),
                     "% change", Undef, String(first.year) \o "-" \o String(last.year)) >>
  IN  IF Len(years) >= 1 THEN Trends(yearlyTotals[1], yearlyTotals[Len(yearlyTotals)])
      ELSE <<>>

\* the year-over-year trends: the two benchmarks of type 'trend'
TrendBenchmarks(years, yearlyTotals) ==
  LET \* ((last - first) / first) * 100
      Change(first, last) == NMul(NDiv(NSub(last, first), first), Fin(100))
      Trends(first, last) ==
        << Benchmark("trend", "Deforestation Trend", Change(first.def, last.def),
                     "% change", Undef, String(first.year) \o "-" \o String(last.year)),
           Benchmark("trend", "Reforestation Trend", Change(first.ref, last.ref),
                     "% change", Undef, String(first.year) \o "-" \o String(last.year)) >>
  IN  IF Len(years) >= 2 THEN Trends(yearlyTotals[1], yearlyTotals[Len(yearlyTotals)])
      ELSE <<>>

\* the body of calculateBenchmarks once sortedData, the keys of stateData and
\* the sorted years are known
BenchmarksOf(sortedData, stateKeys, years) ==
  OverallBenchmarks(Sum(sortedData, Def), Sum(sortedData, Ref),
                    Len(Distinct([i \in 1..Len(sortedData) |-> sortedData[i].year])))
  \o StateBenchmarks(LET \* (a, b) => b.netChange - a.netChange
                          Better(a, b) == NGt(a.netChange, b.netChange)
                      IN  SortBy(StatePerformance(sortedData, stateKeys), Better))
  \o TrendBenchmarks(years, YearlyTotals(sortedData, years))

\* the body of calculateBenchmarks once sortedData is known
BenchmarksSorted(sortedData) ==
  BenchmarksOf(sortedData,
               Distinct([i \in 1..Len(sortedData) |-> sortedData[i].state]),
               SortBy(Distinct([i \in 1..Len(sortedData) |-> sortedData[i].year]), DefaultLt))

calculateBenchmarks(data) ==
  IF Len(data) = 0 THEN <<>> ELSE BenchmarksSorted(SortBy(data, RowYearLt))

projectionYears == <<1, 3, 5>>

Projection(year, deforestation, reforestation, netChange, description, isSpecial) ==
  [year |-> year, deforestation |-> deforestation, reforestation |-> reforestation,
   netChange |-> netChange, description |-> description, isSpecial |-> isSpecial]

\* the intermediate values of calculateProjections, from the sorted years and
\* their totals
TrendOf(years, yearlyTotals) ==
  LET Id(x) == x
      \* sum / changes.length of the year-over-year changes
      AverageChange(changes) == NDiv(Sum(changes, Id), Fin(Len(changes)))
  IN
  [years |-> years,
   lastYear |-> years[Len(years)],
   avgDefChange |->
     AverageChange([i \in 1..(Len(yearlyTotals) - 1) |->
                      NSub(yearlyTotals[i + 1].def, yearlyTotals[i].def)]),
   avgRefChange |->
     AverageChange([i \in 1..(Len(yearlyTotals) - 1) |->
                      NSub(yearlyTotals[i + 1].ref, yearlyTotals[i].ref)]),
   currentDef |-> yearlyTotals[Len(yearlyTotals)].def,
   currentRef |-> yearlyTotals[Len(yearlyTotals)].ref]

TrendSorted(sortedData, years) == TrendOf(years, YearlyTotals(sortedData, years))

\* the intermediate values of calculateProjections for a collection with at
\* least two distinct years
Trend(data) ==
  TrendSorted(SortBy(data, RowYearLt),
              SortBy(Distinct([i \in 1..Len(data) |-> SortBy(data, RowYearLt)[i].year]),
                     DefaultLt))

\* the entry calculateProjections pushes for one element of projectionYears
HorizonProjection(t, yearsAhead) ==
  LET Entry(projectedDef, projectedRef, projectedYear) ==
        Projection(projectedYear, MathMax0(projectedDef), MathMax0(projectedRef),
                   NSub(projectedRef, projectedDef),
                   "Projected for " \o String(projectedYear) \o " based on "
                     \o String(t.years[1]) \o "-" \o String(t.lastYear) \o " trends",
                   FALSE)
  IN  Entry(NAdd(t.currentDef, NMul(t.avgDefChange, Fin(yearsAhead))),
            NAdd(t.currentRef, NMul(t.avgRefChange, Fin(yearsAhead))),
            Plus(t.lastYear, Fin(yearsAhead)))

\* yearsToBalance: where the two trend lines cross
YearsToBalance(t) ==
  NDiv(NSub(t.currentDef, t.currentRef), NSub(t.avgRefChange, t.avgDefChange))

\* the entry pushed for the year of equilibrium
BalanceProjection(t, yearsToBalance) ==
  Projection(Num(MathRound(Number(Plus(t.lastYear, yearsToBalance)))),
             NAdd(t.currentDef, NMul(t.avgDefChange, yearsToBalance)),
             NAdd(t.currentRef, NMul(t.avgRefChange, yearsToBalance)),
             Zero,
             "Projected equilibrium year (reforestation = deforestation)",
             TRUE)

\* EquilibriumProjection with the upper end of the window included
EquilibriumProjection_Within30(t) ==
  IF ~NEq(t.avgDefChange, t.avgRefChange)
  THEN IF NGt(YearsToBalance(t), Zero) /\ NLe(YearsToBalance(t), Fin(30))
       THEN <<BalanceProjection(t, YearsToBalance(t))>>
       ELSE <<>>
  ELSE <<>>

\* the sustainability projection: the entries it adds (none or one)
EquilibriumProjection(t) ==
  IF ~NEq(t.avgDefChange, t.avgRefChange)
  THEN IF NGt(YearsToBalance(t), Zero) /\ NLt(YearsToBalance(t), Fin(30))
       THEN <<BalanceProjection(t, YearsToBalance(t))>>
       ELSE <<>>
  ELSE <<>>

\* the entries calculateProjections pushes, from the trend values
ProjectionsOf(t) ==
  [i \in 1..Len(projectionYears) |-> HorizonProjection(t, projectionYears[i])]
  \o EquilibriumProjection(t)

\* calculateProjections asking for one year only
calculateProjections_OneYear(data) ==
  IF Len(data) = 0 THEN <<>>
  ELSE IF Len(Distinct([i \in 1..Len(data) |-> data[i].year])) < 1 THEN <<>>
  ELSE ProjectionsOf(Trend(data))

calculateProjections(data) ==
  IF Len(data) = 0 THEN <<>>
  ELSE IF Len(Distinct([i \in 1..Len(data) |-> data[i].year])) < 2 THEN <<>>
  ELSE ProjectionsOf(Trend(data))

(***************************************************************************)
(* Files and their decoding (FileUpload.tsx, parseCSV, parseXLSX).  A file *)
(* carries what the decoding libraries make of its bytes: the row objects  *)
(* of a CSV, spreadsheet or JSON file (wellFormed is FALSE when the        *)
(* library rejects the bytes) and the lines of a text file.                 *)
(***************************************************************************)
File(name, wellFormed, rows, lines) ==
  [name |-> name, wellFormed |-> wellFormed, rows |-> rows, lines |-> lines]

\* String.prototype.endsWith
endsWith(s, suffix) ==
  Len(s) >= Len(suffix) /\ SubSeq(s, Len(s) - Len(suffix) + 1, Len(s)) = suffix

\* FileKind with every other file read as text
FileKind_OtherAsText(name) ==
  LET n == toLowerCase(name)
  IN  IF endsWith(n, ".csv") THEN "csv"
      ELSE IF endsWith(n, ".xlsx") \/ endsWith(n, ".xls") THEN "xlsx"
      ELSE IF endsWith(n, ".json") THEN "json"
      ELSE "txt"

\* the branch of onDrop a file name takes
FileKind(name) ==
  LET n == toLowerCase(name)
  IN  IF endsWith(n, ".csv") THEN "csv"
      ELSE IF endsWith(n, ".xlsx") \/ endsWith(n, ".xls") THEN "xlsx"
      ELSE IF endsWith(n, ".json") THEN "json"
      ELSE IF endsWith(n, ".txt") THEN "txt"
      ELSE "unsupported"

\* String.prototype.split for a one-character separator
RECURSIVE SplitFrom(_, _, _, _)
SplitFrom(s, sep, i, cur) ==
  IF i > Len(s) THEN <<cur>>
  ELSE IF Ch(s, i) = sep THEN <<cur>> \o SplitFrom(s, sep, i + 1, "")
  ELSE SplitFrom(s, sep, i + 1, cur \o Ch(s, i))

split(s, sep) == SplitFrom(s, sep, 1, "")

\* the keys of a row after (header) => header.trim().toLowerCase()
RECURSIVE TransformHeaderFrom(_, _, _)
TransformHeaderFrom(row, i, acc) ==
  IF i > Len(row) THEN acc
  ELSE TransformHeaderFrom(row, i + 1, Put(acc, toLowerCase(trim(row[i].key)), row[i].val))

transformHeader(row) == TransformHeaderFrom(row, 1, <<>>)

\* results.data.map(item => processRow(item)); the rows take the identifiers
\* uuid + 1, uuid + 2, ... as the values of uuidv4()
MapProcessRow(rows, uuid) ==
  [i \in 1..Len(rows) |-> processRow(rows[i], "u" \o ToString(uuid + i))]

parseCSV(file, uuid) == MapProcessRow([i \in 1..Len(file.rows) |-> transformHeader(file.rows[i])], uuid)

parseXLSX(file, uuid) == MapProcessRow([i \in 1..Len(file.rows) |-> transformHeader(file.rows[i])], uuid)

\* a row object read as a ForestData without any conversion: the properties
\* the later code reads, by their exact names
AsForestData(row) ==
  ForestData(Get(row, "id"), Get(row, "state"), Get(row, "year"), Get(row, "deforestation"),
             Get(row, "reforestation"), Get(row, "netChange"))

\* the JSON branch of onDrop
parseJSON(file) == [i \in 1..Len(file.rows) |-> AsForestData(file.rows[i])]

RECURSIVE RowOfValues(_, _, _, _)
RowOfValues(headers, values, i, acc) ==
  IF i > Len(headers) THEN acc
  ELSE RowOfValues(headers, values, i + 1,
         Put(acc, headers[i], Str(IF i <= Len(values) THEN trim(values[i]) ELSE "")))

\* the TXT branch of onDrop, for a file with at least one non-blank line
parseTXT(file) ==
  LET nonBlank(line) == trim(line) # ""
      lines == SelectSeq(file.lines, nonBlank)
      firstLine == lines[1]
      delimiter == IF includes(firstLine, "\t") THEN "\t"
                   ELSE IF includes(firstLine, ";") THEN ";" ELSE ","
      hs == split(lines[1], delimiter)
      headers == [i \in 1..Len(hs) |-> trim(hs[i])]
      body == SubSeq(lines, 2, Len(lines))
  IN  [i \in 1..Len(body) |->
         AsForestData(RowOfValues(headers, split(body[i], delimiter), 1, <<>>))]

\* whether the decoding of the file rejects: the library refuses the bytes,
\* or the text file has no line (firstLine.includes raises a TypeError)
DecodeRejects(file) ==
  LET nonBlank(line) == trim(line) # ""
  IN  IF FileKind(file.name) = "txt" THEN SelectSeq(file.lines, nonBlank) = <<>>
      ELSE ~file.wellFormed

\* the message of the rejection
RejectMessage(file) ==
  CASE FileKind(file.name) = "json" -> "Invalid JSON format."
    [] FileKind(file.name) = "txt" -> "Invalid text file format."
    [] OTHER -> "An unknown error occurred"

\* the message when the FileReader itself fails
ReadErrorMessage(file) ==
  IF FileKind(file.name) \in {"json", "txt"} THEN "Failed to read file."
  ELSE "An unknown error occurred"

\* data: what the await of onDrop yields for a decoded file
Decoded(file, uuid) ==
  CASE FileKind(file.name) = "csv" -> parseCSV(file, uuid)
    [] FileKind(file.name) = "xlsx" -> parseXLSX(file, uuid)
    [] FileKind(file.name) = "json" -> parseJSON(file)
    [] FileKind(file.name) = "txt" -> parseTXT(file)

UnsupportedMessage == "Unsupported file format. Please upload a CSV, Excel, JSON, or TXT file."
NoDataMessage == "No data found in the file or invalid format."

(***************************************************************************)
(* The files a user drops in the model.                                     *)
(***************************************************************************)
Row4(k1, v1, k2, v2, k3, v3, k4, v4) == <<Pair(k1, v1), Pair(k2, v2), Pair(k3, v3), Pair(k4, v4)>>

Files ==
  { \* a CSV file: every cell is a string; one row has a negative loss
    File("forest.csv", TRUE,
         << Row4("State", Str("KA"), "Year", Str("2018"), "Deforestation", Str("100"),
                 "Reforestation", Str("50")),
            Row4("State", Str("KA"), "Year", Str("2019"), "Deforestation", Str("80"),
                 "Reforestation", Str("70")),
            Row4("State", Str("KA"), "Year", Str("2019"), "Deforestation", Str("-5"),
                 "Reforestation", Str("3")) >>, <<>>),
    \* a spreadsheet none of whose rows is valid (no region, or a year out of
    \* range); its numeric cells are numbers
    File("old.XLS", TRUE,
         << Row4("Region", Str(""), "Yr", Int2V(2019), "Forest_Loss_Ha", Int2V(4),
                 "Forest_Gain_Ha", Int2V(1)),
            Row4("Region", Str("KA"), "Yr", Int2V(1900), "Forest_Loss_Ha", Int2V(4),
                 "Forest_Gain_Ha", Int2V(1)) >>, <<>>),
    \* a JSON array; its second object has no deforestation property
    File("export.json", TRUE,
         << Row4("state", Str("KA"), "year", Int2V(2019), "deforestation", Int2V(5),
                 "reforestation", Int2V(7)),
            <<Pair("state", Str("GA")), Pair("year", Int2V(2019)),
              Pair("reforestation", Int2V(2))>> >>, <<>>),
    \* bytes JSON.parse throws on
    File("broken.json", FALSE, <<>>, <<>>),
    \* a delimited text file that has its header line and a blank line only
    File("plots.txt", TRUE, <<>>, << "state; year; deforestation; reforestation", "  " >>),
    \* a file the drop zone takes by its MIME type whose name has another
    \* extension
    File("notes.md", TRUE, <<>>, << "state,year" >>) }

(***************************************************************************)
(* State of the page (Dashboard.tsx) and of the upload widget              *)
(* (FileUpload.tsx).                                                        *)
(***************************************************************************)
VARIABLES
  originalData, filteredData, metrics, stateChartData, yearChartData, benchmarks,
  projections, currentYear, filterOptions, filterValues, isDataLoaded, showUpload,
  uploadStatus, error, progress,
  pending,     \* the onDrop calls suspended at their await
  instance,    \* which mount of FileUpload is on the page
  drops,       \* files dropped so far
  uuid,        \* identifiers uuidv4() has handed out
  lastUpload,  \* what the onDrop call that ran last did (history)
  op,          \* the core operation applied last, for an operation taken alone
  rawRows,     \* the row objects given to the row normalizer
  input,       \* the collection given to the operation
  criteria,    \* the FilterValues given to filterData
  output,      \* what the operation returned
  argument     \* the collection given to the operation, as the call left it

dashVars ==
  <<originalData, filteredData, metrics, stateChartData, yearChartData, benchmarks,
    projections, currentYear, filterOptions, filterValues, isDataLoaded, showUpload>>
derivedVars == <<metrics, stateChartData, yearChartData, benchmarks, projections>>
uploadVars == <<uploadStatus, error, progress>>
pageVars == <<dashVars, uploadVars, pending, instance, drops, uuid, lastUpload>>
coreVars == <<op, rawRows, input, criteria, output, argument>>

NoUpload ==
  [n |-> 0, name |-> "", kind |-> "", rawRows |-> 0, processRowCalls |-> 0, cleaned |-> FALSE,
   cleanerOutput |-> <<>>, delivered |-> FALSE, outcome |-> "none", message |-> Null]

PageInit ==
  /\ originalData = <<>>
  /\ filteredData = <<>>
  /\ metrics = [totalDeforestation |-> Zero, totalReforestation |-> Zero, netChange |-> Zero]
  /\ stateChartData = <<>>
  /\ yearChartData = <<>>
  /\ benchmarks = <<>>
  /\ projections = <<>>
  /\ currentYear = Null
  /\ filterOptions = [states |-> <<>>, years |-> <<>>, minYear |-> Undef, maxYear |-> Undef]
  /\ filterValues = NoFilters
  /\ isDataLoaded = FALSE
  /\ showUpload = TRUE
  /\ uploadStatus = "idle"
  /\ error = Null
  /\ progress = 0
  /\ pending = {}
  /\ instance = 1
  /\ drops = 0
  /\ uuid = 0
  /\ lastUpload = NoUpload

\* no core operation is being looked at on its own
CoreIdle ==
  /\ op = "none"
  /\ rawRows = <<>>
  /\ input = <<>>
  /\ criteria = NoFilters
  /\ output = <<>>
  /\ argument = <<>>

\* UpdateDerived with updateBenchmarksAndProjections left out
UpdateDerived_StaleBenchmarks(data) ==
  /\ metrics' = calculateMetrics(data)
  /\ stateChartData' = prepareStateChartData(data)
  /\ yearChartData' = prepareYearChartData(data)
  /\ UNCHANGED <<benchmarks, projections>>

\* updateMetrics, updateChartData and updateBenchmarksAndProjections
UpdateDerived(data) ==
  /\ metrics' = calculateMetrics(data)
  /\ stateChartData' = prepareStateChartData(data)
  /\ yearChartData' = prepareYearChartData(data)
  /\ benchmarks' = calculateBenchmarks(data)
  /\ projections' = calculateProjections(data)

\* Math.max(...years)
RECURSIVE MathMaxFrom(_, _, _)
MathMaxFrom(s, i, acc) ==
  IF i > Len(s) THEN acc
  ELSE LET Larger(x) ==
             IF acc.k = "nan" \/ x.k = "nan" THEN NaN ELSE IF NLt(acc, x) THEN x ELSE acc
       IN  MathMaxFrom(s, i + 1, Larger(Number(s[i])))


\* setFilteredData(data) followed by the three updates
SetFiltered(data) ==
  /\ filteredData' = data
  /\ UpdateDerived(data)

handleDataLoaded(data) ==
  /\ originalData' = data
  /\ SetFiltered(data)
  /\ isDataLoaded' = TRUE
  /\ showUpload' = FALSE
  /\ filterOptions' = extractFilterOptions(data)
  /\ currentYear' = Num(MathMaxFrom([i \in 1..Len(data) |-> data[i].year], 1, NegInf))
  /\ UNCHANGED filterValues

handleFilterChange(newFilters) ==
  /\ filterValues' = newFilters
  /\ SetFiltered(filterData(originalData, newFilters))
  /\ UNCHANGED <<originalData, currentYear, filterOptions, isDataLoaded, showUpload>>

handlePreprocessData ==
  /\ isDataLoaded
  /\ SetFiltered(preprocessData(filteredData))
  /\ UNCHANGED <<originalData, currentYear, filterOptions, filterValues, isDataLoaded,
                 showUpload>>
  /\ UNCHANGED <<uploadVars, pending, instance, drops, uuid, lastUpload, coreVars>>

\* parseInt(s, 10)
parseInt(s) ==
  LET \* neg: a minus sign leads t; p: where its digits start; k: how many
      Integer(t, neg, p, k) ==
        IF k = 0 THEN NaN
        ELSE IF neg THEN Fin(-DigitsVal(t, p, k)) ELSE Fin(DigitsVal(t, p, k))
      Unsigned(t, neg, p) == Integer(t, neg, p, DigitsLen(t, p))
      Leading(t) == Unsigned(t, Len(t) >= 1 /\ Ch(t, 1) = "-",
                             IF Len(t) >= 1 /\ Ch(t, 1) \in {"-", "+"} THEN 2 ELSE 1)
  IN  Leading(trimStart(s))

(***************************************************************************)
(* The sidebar (DashboardSidebar.tsx): its controls are on the page once a *)
(* dataset is loaded.                                                       *)
(***************************************************************************)
uploadFrame == <<uploadVars, pending, instance, drops, uuid, lastUpload, coreVars>>

\* the values of the items of the state select
StateItems == {"all"} \cup {String(filterOptions.states[i]) : i \in 1..Len(filterOptions.states)}
\* the values of the items of the year select
YearItems == {"all"} \cup {String(filterOptions.years[i]) : i \in 1..Len(filterOptions.years)}

handleStateChange ==
  /\ isDataLoaded
  /\ \E value \in StateItems :
       handleFilterChange([filterValues EXCEPT !.state = IF value = "all" THEN Null ELSE Str(value)])
  /\ UNCHANGED uploadFrame

handleYearChange ==
  /\ isDataLoaded
  /\ \E value \in YearItems :
       handleFilterChange([filterValues EXCEPT
                             !.year = IF value = "all" THEN Null ELSE Num(parseInt(value))])
  /\ UNCHANGED uploadFrame

\* the slider is rendered when no year is selected and both ends are truthy
handleDateRangeChange ==
  /\ isDataLoaded
  /\ ~Truthy(filterValues.year)
  /\ Truthy(filterOptions.minYear) /\ Truthy(filterOptions.maxYear)
  /\ Number(filterOptions.minYear).k = "fin" /\ Number(filterOptions.maxYear).k = "fin"
  /\ \E lo, hi \in Number(filterOptions.minYear).n .. Number(filterOptions.maxYear).n :
       /\ lo <= hi
       /\ handleFilterChange([filterValues EXCEPT !.dateRange = <<Fin(lo), Fin(hi)>>])
  /\ UNCHANGED uploadFrame

handleResetFilters ==
  /\ isDataLoaded
  /\ handleFilterChange(FilterValues(Null, Null, <<>>))
  /\ UNCHANGED uploadFrame

\* onShowUpload / "Upload New Data": mounts a new FileUpload
ShowUpload ==
  /\ ~showUpload
  /\ showUpload' = TRUE
  /\ instance' = instance + 1
  /\ uploadStatus' = "idle"
  /\ error' = Null
  /\ progress' = 0
  /\ UNCHANGED <<originalData, filteredData, derivedVars, currentYear, filterOptions,
                 filterValues, isDataLoaded, pending, drops, uuid, lastUpload, coreVars>>

\* "Try Again" and "Upload Another File" of the mounted FileUpload
TryAgain ==
  /\ showUpload
  /\ uploadStatus \in {"success", "error"}
  /\ uploadStatus' = "idle"
  /\ UNCHANGED <<error, progress, dashVars, pending, instance, drops, uuid, lastUpload,
                 coreVars>>

(***************************************************************************)
(* onDrop (FileUpload.tsx): the part before the await, and the part after  *)
(* it, which runs when the decoding settles.  The state setters of a       *)
(* FileUpload that is no longer the mounted one have no effect.            *)
(***************************************************************************)
dashFrame ==
  <<originalData, filteredData, derivedVars, currentYear, filterOptions, filterValues,
    isDataLoaded, showUpload>>

\* SetUpload with setError never called
SetUpload_NoMessage(inst, status, message, percent) ==
  IF inst = instance
  THEN uploadStatus' = status /\ error' = Null /\ progress' = percent
  ELSE UNCHANGED uploadVars

\* setUploadStatus, setError and setProgress of the onDrop call of mount inst
SetUpload(inst, status, message, percent) ==
  IF inst = instance
  THEN uploadStatus' = status /\ error' = message /\ progress' = percent
  ELSE UNCHANGED uploadVars

Upload(n, file, rawCount, calls, cleaned, cleanerOutput, delivered, outcome, message) ==
  [n |-> n, name |-> file.name, kind |-> FileKind(file.name), rawRows |-> rawCount, processRowCalls |-> calls,
   cleaned |-> cleaned, cleanerOutput |-> cleanerOutput, delivered |-> delivered,
   outcome |-> outcome, message |-> message]

\* a file is dropped on the mounted FileUpload
Drop ==
  /\ showUpload
  /\ drops < MaxDrops
  /\ Cardinality(pending) < MaxPending
  /\ \E file \in Files :
       /\ drops' = drops + 1
       /\ IF FileKind(file.name) = "unsupported"
          THEN /\ SetUpload(instance, "error", Str(UnsupportedMessage), 20)
               /\ lastUpload' = Upload(drops + 1, file, 0, 0, FALSE, <<>>, FALSE, "error",
                                       Str(UnsupportedMessage))
               /\ UNCHANGED pending
          ELSE /\ SetUpload(instance, "uploading", Null, 40)
               /\ pending' = pending \cup {[n |-> drops + 1, file |-> file, inst |-> instance]}
               /\ UNCHANGED lastUpload
  /\ UNCHANGED <<dashFrame, instance, uuid, coreVars>>

\* number of row objects the decoding of the file yields
RawRowCount(file) ==
  IF FileKind(file.name) = "txt"
  THEN LET nonBlank(line) == trim(line) # "" IN Len(SelectSeq(file.lines, nonBlank)) - 1
  ELSE Len(file.rows)

\* number of processRow calls the decoding of the file makes
ProcessRowCalls(file) ==
  IF FileKind(file.name) \in {"csv", "xlsx"} THEN Len(file.rows) ELSE 0

\* the end of onDrop for the drop p: the cleaned data is handed to the page
Deliver(p, processedData) ==
  /\ handleDataLoaded(processedData)
  /\ SetUpload(p.inst, "success", Null, 100)
  /\ lastUpload' = Upload(p.n, p.file, RawRowCount(p.file), ProcessRowCalls(p.file), TRUE,
                          processedData, TRUE, "success", Null)

\* Settle with the data handed to the page before its length is tested
Settle_LoadBeforeTest(p, data) ==
  IF Len(data) = 0
  THEN /\ SetUpload(p.inst, "error", Str(NoDataMessage), 70)
       /\ lastUpload' = Upload(p.n, p.file, RawRowCount(p.file), ProcessRowCalls(p.file),
                               FALSE, <<>>, FALSE, "error", Str(NoDataMessage))
       /\ handleDataLoaded(data)
  ELSE Deliver(p, preprocessData(data))

\* onDrop of the drop p after its await yielded data
Settle(p, data) ==
  IF Len(data) = 0
  THEN /\ SetUpload(p.inst, "error", Str(NoDataMessage), 70)
       /\ lastUpload' = Upload(p.n, p.file, RawRowCount(p.file), ProcessRowCalls(p.file),
                               FALSE, <<>>, FALSE, "error", Str(NoDataMessage))
       /\ UNCHANGED dashFrame
  ELSE Deliver(p, preprocessData(data))

\* the decoding of a pending drop settles with a value
DecodeDone ==
  \E p \in pending :
    /\ pending' = pending \ {p}
    /\ ~DecodeRejects(p.file)
    /\ uuid' = uuid + ProcessRowCalls(p.file)
    /\ Settle(p, Decoded(p.file, uuid))
    /\ UNCHANGED <<instance, drops, coreVars>>

\* the decoding of a pending drop rejects: the bytes are refused
DecodeRejected ==
  \E p \in pending :
    /\ pending' = pending \ {p}
    /\ DecodeRejects(p.file)
    /\ SetUpload(p.inst, "error", Str(RejectMessage(p.file)), 40)
    /\ lastUpload' = Upload(p.n, p.file, 0, 0, FALSE, <<>>, FALSE, "error",
                            Str(RejectMessage(p.file)))
    /\ UNCHANGED <<dashFrame, instance, drops, uuid, coreVars>>

\* the decoding of a pending drop rejects: the FileReader fails
ReadFailed ==
  \E p \in pending :
    /\ pending' = pending \ {p}
    /\ SetUpload(p.inst, "error", Str(ReadErrorMessage(p.file)), 40)
    /\ lastUpload' = Upload(p.n, p.file, 0, 0, FALSE, <<>>, FALSE, "error",
                            Str(ReadErrorMessage(p.file)))
    /\ UNCHANGED <<dashFrame, instance, drops, uuid, coreVars>>

Next ==
  \/ Drop
  \/ DecodeDone
  \/ DecodeRejected
  \/ ReadFailed
  \/ ShowUpload
  \/ TryAgain
  \/ handleStateChange
  \/ handleYearChange
  \/ handleDateRangeChange
  \/ handleResetFilters
  \/ handlePreprocessData

vars == <<pageVars, coreVars>>

Init == PageInit /\ CoreIdle

Spec == Init /\ [][Next]_vars

\* the uploads taken alone: files are dropped and decoded, the upload area is
\* shown again and its status dismissed, no filter is touched
SpecUpload ==
  Init /\ [][Drop \/ DecodeDone \/ DecodeRejected \/ ReadFailed \/ ShowUpload \/ TryAgain]_vars

(***************************************************************************)
(* The core operations taken alone: an input is drawn, the operation is    *)
(* applied to it, and its result is kept.                                   *)
(***************************************************************************)
\* ArgumentAfter with sort() called on the argument itself
ArgumentAfter_SortInPlace(operation, data) ==
  IF operation \in {"calculateBenchmarks", "calculateProjections"}
  THEN SortBy(data, RowYearLt) ELSE data

\* The array given to an operation, as it is when the operation returns.  No
\* operation assigns to its argument or to a record of it: filter, map,
\* reduce and forEach only read, map builds new records ({...row, ...}), and
\* sort() is called on the copy [...data].
ArgumentAfter(operation, data) == data

SeqsUpTo(S, n) == UNION {[1..k -> S] : k \in 0..n}

\* a ForestData as processRow builds it and the type declares it: a string
\* region, numeric year and amounts
Canonical(state, year, deforestation, reforestation) ==
  ForestData(Str("r"), Str(state), Int2V(year), Int2V(deforestation), Int2V(reforestation),
             Int2V(reforestation - deforestation))

\* records for the cleaner: a region or none, years on both sides of each end
\* of the valid range, amounts of both signs
CleanerRecords ==
  {Canonical(st, y, d, r) : st \in {"", "KA"}, y \in {1900, 1901, CurrentYear, CurrentYear + 1},
                            d \in {-5, 7}, r \in {-3, 4}}

\* row objects for the normalizer: recognisable headers in several spellings
\* or none, cells that are strings or numbers
RawRowInputs ==
  {Row4(h[1], st, h[2], y, h[3], d, h[4], r) :
     h \in { <<"State", "Year", "Deforestation", "Reforestation">>,
             <<"STATE", "Year", "Forest_Loss_Ha", "forest_gain">>,
             <<"a", "b", "c", "d">> },
     st \in {Str(""), Str("Kerala")},
     y \in {Str("2019"), Int2V(1900), Str("FY 2019")},
     d \in {Str("-5"), Str("120.5"), Str("n/a")},
     r \in {Int2V(-3), Str("65.9")}}
  \cup
  \* one row of cells under other headers: the amounts not named, two keys
  \* that name the region, the named columns in another order, an amount
  \* column whose name holds the word area
  { Row4("State", Str("Kerala"), "Year", Str("2019"), "x", Str("120.5"), "y", Str("65.9")),
    Row4("Area", Str("Kerala"), "Year", Str("2019"), "Loss", Str("120.5"),
         "Gain_State", Str("65.9")),
    Row4("Forest_Loss_Ha", Str("120.5"), "STATE", Str("Kerala"), "Year", Str("2019"),
         "forest_gain", Str("65.9")),
    Row4("Year", Str("2019"), "Loss_Area", Str("120.5"), "Gain_Area", Str("65.9"),
         "Name", Str("Kerala")) }

\* an operation taken alone starts from the page as constructed, with nothing
\* applied yet
CoreStart ==
  /\ PageInit
  /\ op = "start"
  /\ rawRows = <<>>
  /\ input = <<>>
  /\ criteria = NoFilters
  /\ output = <<>>
  /\ argument = <<>>

(* the row normalizer and the dataset cleaner *)
\* rows come from a decoder and are normalized one by one
Normalize ==
  /\ op = "start"
  /\ \E rows \in SeqsUpTo(RawRowInputs, MaxRawLen) :
       /\ rawRows' = rows
       /\ input' = rows
       /\ output' = MapProcessRow(rows, 0)
       /\ argument' = ArgumentAfter("processRow", rows)
  /\ op' = "processRow"
  /\ UNCHANGED <<criteria, pageVars>>

\* a collection of records is handed to the cleaner
CleanSupplied ==
  /\ op = "start"
  /\ \E data \in SeqsUpTo(CleanerRecords, MaxLen) :
       /\ input' = data
       /\ output' = preprocessData(data)
       /\ argument' = ArgumentAfter("preprocessData", data)
  /\ op' = "preprocessData"
  /\ UNCHANGED <<rawRows, criteria, pageVars>>

\* the result of the last operation is handed to the cleaner
CleanOutput ==
  /\ op \in {"processRow", "preprocessData"}
  /\ input' = output
  /\ output' = preprocessData(output)
  /\ argument' = ArgumentAfter("preprocessData", output)
  /\ op' = IF op = "processRow" THEN "preprocessData" ELSE "preprocessData again"
  /\ UNCHANGED <<rawRows, criteria, pageVars>>

SpecClean == CoreStart /\ [][Normalize \/ CleanSupplied \/ CleanOutput]_vars

\* the row normalizer taken alone: one row is normalized
NormalizeRow ==
  /\ op = "start"
  /\ \E row \in RawRowInputs :
       /\ rawRows' = <<row>>
       /\ input' = <<row>>
       /\ output' = MapProcessRow(<<row>>, 0)
       /\ argument' = ArgumentAfter("processRow", <<row>>)
  /\ op' = "processRow"
  /\ UNCHANGED <<criteria, pageVars>>

SpecNormalize == CoreStart /\ [][NormalizeRow]_vars

(***************************************************************************)
(* Claims about the row normalizer and the dataset cleaner (SpecClean).    *)
(***************************************************************************)
\* C1: every record processRow returns and every record preprocessData
\* returns has netChange equal to its own emitted reforestation minus its own
\* emitted deforestation, also when an amount was negative and was clamped.
C1_NetChangeOfEmittedAmounts ==
  op \in {"processRow", "preprocessData", "preprocessData again"} =>
    \A i \in 1..Len(output) :
      NEq(Number(output[i].netChange),
          NSub(Number(output[i].reforestation), Number(output[i].deforestation)))

\* C2: preprocessData is idempotent: applied to its own result it returns that
\* result, record by record and field by field, netChange included.
C2_CleanerIdempotent ==
  op = "preprocessData again" => output = input

\* C17: when neither the loss column nor the gain column is resolved by name,
\* processRow takes the loss from the first numeric field of the row that is
\* not the field used for the year and the gain from the second such field,
\* so that the two never come from the same field nor from the year field.
C17_FallbackAmountsFromDistinctFields ==
  op = "processRow" =>
    \A i \in 1..Len(rawRows) :
      LET nr == normalizedRowOf(rawRows[i])
          m == identifyColumnMapping(rawRows[i])
          LooksLikeYear(j) == /\ isNumeric(nr[j].val)
                              /\ NGe(parseFloat(nr[j].val), Fin(1900))
                              /\ NLe(parseFloat(nr[j].val), Fin(CurrentYear))
          \* the field the year was taken from: the one resolved by name, or
          \* the first that looks like a year
          yearAt == IF m.yearField # ""
                    THEN {j \in 1..Len(nr) : nr[j].key = m.yearField}
                    ELSE {j \in 1..Len(nr) :
                            LooksLikeYear(j) /\ \A k \in 1..(j - 1) : ~LooksLikeYear(k)}
          amounts == {j \in 1..Len(nr) : isNumeric(nr[j].val) /\ j \notin yearAt}
          first == CHOOSE j \in amounts : \A k \in amounts : j <= k
          second == CHOOSE j \in amounts \ {first} : \A k \in amounts \ {first} : j <= k
      IN  (m.deforestationField = "" /\ m.reforestationField = ""
             /\ Cardinality(amounts) >= 2) =>
            /\ output[i].deforestation = Num(OrZero(parseFloat(nr[first].val)))
            /\ output[i].reforestation = Num(OrZero(parseFloat(nr[second].val)))

\* C18: for a raw row none of whose keys contains a candidate name of any of
\* the four fields, processRow returns a record with the empty state and with
\* year, deforestation and reforestation all 0, and preprocessData then drops
\* that record.
C18_UnrecognisedRowIsEmptyAndDropped ==
  LET AllCandidates ==
        stateCandidates \o yearCandidates \o deforestationCandidates
          \o reforestationCandidates
      Unrecognised(row) ==
        \A j \in 1..Len(row), c \in 1..Len(AllCandidates) :
          ~includes(toLowerCase(row[j].key), AllCandidates[c])
  IN  /\ op = "processRow" =>
           \A i \in 1..Len(rawRows) :
             Unrecognised(rawRows[i]) =>
               /\ output[i].state = Str("")
               /\ output[i].year = Int2V(0)
               /\ output[i].deforestation = Int2V(0)
               /\ output[i].reforestation = Int2V(0)
      /\ (op = "preprocessData" /\ rawRows # <<>>) =>
           \A i \in 1..Len(rawRows) :
             Unrecognised(rawRows[i]) =>
               \A k \in 1..Len(output) : output[k].id # input[i].id

\* C19: each canonical field is bound to the first key, in the key order of
\* the row, whose lower-cased name contains one of the field's candidates,
\* whatever the casing of the key and whatever surrounds the candidate in it;
\* the row {Forest_Loss_Ha: "120.5", STATE: "Kerala", Year: "2019",
\* forest_gain: "65.9"} becomes state Kerala, year 2019, deforestation 120.5,
\* reforestation 65.9.
C19_FirstMatchingKeyIsBound ==
  op = "processRow" =>
    \A i \in 1..Len(rawRows) :
      LET row == rawRows[i]
          FirstKey(candidates) ==
            LET hit == {j \in 1..Len(row) :
                          \E c \in 1..Len(candidates) :
                            includes(toLowerCase(row[j].key), candidates[c])}
            IN  IF hit = {} THEN 0 ELSE CHOOSE j \in hit : \A k \in hit : j <= k
          st == FirstKey(stateCandidates)
          y == FirstKey(yearCandidates)
          d == FirstKey(deforestationCandidates)
          r == FirstKey(reforestationCandidates)
      IN  /\ st # 0 => output[i].state = Str(String(row[st].val))
          /\ y # 0 => output[i].year = Num(parseYearValue(row[y].val))
          /\ d # 0 => output[i].deforestation = Num(OrZero(parseFloat(row[d].val)))
          /\ r # 0 => output[i].reforestation = Num(OrZero(parseFloat(row[r].val)))
          /\ (/\ row[1] = Pair("Forest_Loss_Ha", Str("120.5"))
              /\ row[2] = Pair("STATE", Str("Kerala"))
              /\ row[3] = Pair("Year", Str("2019"))
              /\ row[4] = Pair("forest_gain", Str("65.9"))) =>
               /\ output[i].state = Str("Kerala")
               /\ output[i].year = Int2V(2019)
               /\ output[i].deforestation = Num(Rat(1205, 10))
               /\ output[i].reforestation = Num(Rat(659, 10))

\* the row of the example was normalized
C19_Witness ==
  /\ op = "processRow"
  /\ Len(rawRows) = 1
  /\ rawRows[1][1] = Pair("Forest_Loss_Ha", Str("120.5"))
  /\ rawRows[1][2].key = "STATE"
  /\ output[1].state = Str("Kerala")
  /\ output[1].deforestation = Num(Rat(1205, 10))

\* a row with two keys that name the region was normalized: the first one
\* gave the state
C19_WitnessTwoKeys ==
  /\ op = "processRow"
  /\ Len(rawRows) = 1
  /\ rawRows[1][1].key = "Area"
  /\ rawRows[1][4].key = "Gain_State"
  /\ output[1].state = Str("Kerala")

(***************************************************************************)
(* The filter engine taken alone (SpecFilter).                             *)
(***************************************************************************)
\* records of a cleaned dataset: regions that differ in case only, and years
FilterRecords ==
  {Canonical(st, y, 5, 7) : st \in {"KA", "ka", "GA"}, y \in {2017, 2018, 2019}}

\* criteria: each one unset (null) or set, the set ones including the region
\* "" and the year 0
FilterCriteria ==
  {FilterValues(st, y, dr) :
     st \in {Null, Str(""), Str("KA")},
     y \in {Null, Int2V(0), Int2V(2018)},
     dr \in {<<>>, <<Fin(2018), Fin(2019)>>, <<Fin(2019), Fin(2019)>>}}

Filter ==
  /\ op = "start"
  /\ \E data \in SeqsUpTo(FilterRecords, MaxLen), filters \in FilterCriteria :
       /\ input' = data
       /\ criteria' = filters
       /\ output' = filterData(data, filters)
       /\ argument' = ArgumentAfter("filterData", data)
  /\ op' = "filterData"
  /\ UNCHANGED <<rawRows, pageVars>>

SpecFilter == CoreStart /\ [][Filter]_vars

\* C6: filterData retains a record if and only if it satisfies every non-null
\* criterion: its state equals filters.state, its year equals filters.year and
\* its year lies in the date range, whatever the non-null values are (the
\* region "" and the year 0 included), all non-null criteria being applied.
C6_RetainedIffAllNonNullCriteria ==
  op = "filterData" =>
    LET Meets(row) ==
          /\ criteria.state # Null => row.state = criteria.state
          /\ criteria.year # Null => row.year = criteria.year
          /\ criteria.dateRange # <<>> =>
               /\ NLe(criteria.dateRange[1], Number(row.year))
               /\ NLe(Number(row.year), criteria.dateRange[2])
    IN  output = SelectSeq(input, Meets)

\* C7: with all three criteria null filterData returns exactly the records of
\* its input, in the input's order.
C7_NoCriteriaIsIdentity ==
  (op = "filterData" /\ criteria = NoFilters) => output = input

\* an input of two different records was filtered with no criterion set
C7_Witness ==
  /\ op = "filterData"
  /\ criteria = NoFilters
  /\ Len(input) = 2
  /\ input[1] # input[2]
  /\ output = input

(***************************************************************************)
(* The projection engine taken alone (SpecProj).                           *)
(***************************************************************************)
\* records of a cleaned dataset: a year, and a loss and a gain; the last pair
\* lets both trends fall, the loss faster than the gain
ProjRecords ==
  {Canonical("KA", y, a[1], a[2]) :
     y \in {2017, 2018, 2019},
     a \in {<<100, 50>>, <<80, 70>>, <<100, 69>>, <<100, 70>>, <<0, 70>>, <<10, 0>>}}

Project ==
  /\ op = "start"
  /\ \E data \in SeqsUpTo(ProjRecords, MaxProjLen) :
       /\ input' = data
       /\ output' = calculateProjections(data)
       /\ argument' = ArgumentAfter("calculateProjections", data)
  /\ op' = "calculateProjections"
  /\ UNCHANGED <<rawRows, criteria, pageVars>>

SpecProj == CoreStart /\ [][Project]_vars

\* C9: for each horizon h in {1, 3, 5} calculateProjections emits an entry at
\* lastYear + h with deforestation max(0, lastLoss + avgLossDelta * h),
\* reforestation max(0, lastGain + avgGainDelta * h) and netChange equal to
\* the emitted reforestation minus the emitted deforestation, the deltas being
\* the means of the differences between the totals of consecutive years.
C9_HorizonEntries ==
  op = "calculateProjections" =>
    LET ys == {Number(input[i].year) : i \in 1..Len(input)}
        n == Cardinality(ys)
        Of(y) == LET in(row) == Number(row.year) = y IN SelectSeq(input, in)
    IN  n >= 2 =>
          LET last == CHOOSE y \in ys : \A z \in ys : NLe(z, y)
              first == CHOOSE y \in ys : \A z \in ys : NLe(y, z)
              lastLoss == Sum(Of(last), Def)
              lastGain == Sum(Of(last), Ref)
              \* the mean of the consecutive differences: they telescope
              avgLossDelta == NDiv(NSub(lastLoss, Sum(Of(first), Def)), Fin(n - 1))
              avgGainDelta == NDiv(NSub(lastGain, Sum(Of(first), Ref)), Fin(n - 1))
          IN  \A h \in {1, 3, 5} :
                \E i \in 1..Len(output) :
                  /\ ~output[i].isSpecial
                  /\ output[i].year = Num(NAdd(last, Fin(h)))
                  /\ output[i].deforestation
                       = MathMax0(NAdd(lastLoss, NMul(avgLossDelta, Fin(h))))
                  /\ output[i].reforestation
                       = MathMax0(NAdd(lastGain, NMul(avgGainDelta, Fin(h))))
                  /\ output[i].netChange
                       = NSub(output[i].reforestation, output[i].deforestation)

\* C10: calculateProjections emits an equilibrium entry if and only if
\* avgLossDelta # avgGainDelta and the solution t of
\* lastLoss + avgLossDelta * t = lastGain + avgGainDelta * t has 0 < t < 30;
\* it is then one extra entry, at year round(lastYear + t), with netChange 0
\* and the flag set; otherwise the output holds no flagged entry.
C10_EquilibriumEntry ==
  op = "calculateProjections" =>
    LET ys == {Number(input[i].year) : i \in 1..Len(input)}
        n == Cardinality(ys)
        Of(y) == LET in(row) == Number(row.year) = y IN SelectSeq(input, in)
        flagged == {i \in 1..Len(output) : output[i].isSpecial}
    IN  IF n < 2 THEN flagged = {}
        ELSE
          LET last == CHOOSE y \in ys : \A z \in ys : NLe(z, y)
              first == CHOOSE y \in ys : \A z \in ys : NLe(y, z)
              lastLoss == Sum(Of(last), Def)
              lastGain == Sum(Of(last), Ref)
              avgLossDelta == NDiv(NSub(lastLoss, Sum(Of(first), Def)), Fin(n - 1))
              avgGainDelta == NDiv(NSub(lastGain, Sum(Of(first), Ref)), Fin(n - 1))
              t == NDiv(NSub(lastLoss, lastGain), NSub(avgGainDelta, avgLossDelta))
          IN  IF avgLossDelta # avgGainDelta /\ NLt(Zero, t) /\ NLt(t, Fin(30))
              THEN /\ Cardinality(flagged) = 1
                   /\ Len(output) = Len(projectionYears) + 1
                   /\ \A i \in flagged :
                        /\ output[i].year = Num(MathRound(NAdd(last, t)))
                        /\ output[i].netChange = Zero
              ELSE flagged = {}

\* an equilibrium entry was emitted for trends that cross after a fraction of
\* a year
C10_Witness ==
  /\ op = "calculateProjections"
  /\ Len(output) = 4
  /\ output[4].isSpecial
  /\ output[4].netChange = Zero
  /\ output[4].year = Int2V(2019)
  /\ output[1].year = Int2V(2020)

\* C11: calculateProjections returns the empty list for every collection with
\* fewer than 2 distinct years, the empty collection included, and for every
\* collection with at least 2 distinct years a non-empty list that holds an
\* entry for each of the three horizons lastYear + 1, + 3 and + 5.
C11_EmptyBelowTwoYears ==
  op = "calculateProjections" =>
    LET ys == {Number(input[i].year) : i \in 1..Len(input)}
    IN  IF Cardinality(ys) < 2 THEN output = <<>>
        ELSE /\ Len(output) >= 3
             /\ \A h \in {1, 3, 5} :
                  \E i \in 1..Len(output) :
                    /\ ~output[i].isSpecial
                    /\ output[i].year
                         = Num(NAdd(CHOOSE y \in ys : \A z \in ys : NLe(z, y), Fin(h)))

\* three records of two distinct years were projected: the three horizon
\* entries came out
C11_Witness ==
  /\ op = "calculateProjections"
  /\ Len(input) = 3
  /\ Cardinality({input[i].year : i \in 1..Len(input)}) = 2
  /\ Len(output) = 3
  /\ output[3].year = Int2V(2024)

\* two records of the same year were projected: nothing came out
C11_WitnessSameYear ==
  /\ op = "calculateProjections"
  /\ Len(input) = 2
  /\ input[1] # input[2]
  /\ input[1].year = input[2].year
  /\ output = <<>>

\* C24: every entry calculateProjections returns, the equilibrium entry
\* included, has a year strictly greater than the last observed year of the
\* input.
C24_ProjectionYearsInFuture ==
  op = "calculateProjections" =>
    \A i \in 1..Len(output), j \in 1..Len(input) :
      NGt(Number(output[i].year), Number(input[j].year))

\* C25: every entry calculateProjections returns for a cleaned collection,
\* the equilibrium entry included, has deforestation >= 0 and
\* reforestation >= 0.
C25_ProjectedAmountsNonNegative ==
  op = "calculateProjections" =>
    \A i \in 1..Len(output) :
      /\ NGe(output[i].deforestation, Zero)
      /\ NGe(output[i].reforestation, Zero)

(***************************************************************************)
(* The aggregators and the benchmark engine taken alone (SpecDerive).      *)
(***************************************************************************)
\* records of a dataset: two regions met in either order, years met in
\* either order, a loss or a gain of zero, and a netChange that is not the
\* gain minus the loss (the record of a negative loss, clamped); the year 900
\* is one the cleaner does not keep, the aggregators take it as any other
DerivedRecords ==
  {ForestData(Str("r"), Str(st), Int2V(y), Int2V(a[1]), Int2V(a[2]), Int2V(a[3])) :
     st \in {"KA", "GA"}, y \in {900, 2018, 2019},
     a \in {<<0, 70, 70>>, <<100, 0, -100>>, <<80, 50, -30>>, <<0, 4, 9>>}}

Metrics ==
  /\ op = "start"
  /\ \E data \in SeqsUpTo(DerivedRecords, MaxLen) :
       /\ input' = data
       /\ output' = calculateMetrics(data)
       /\ argument' = ArgumentAfter("calculateMetrics", data)
  /\ op' = "calculateMetrics"
  /\ UNCHANGED <<rawRows, criteria, pageVars>>

StateChart ==
  /\ op = "start"
  /\ \E data \in SeqsUpTo(DerivedRecords, MaxLen) :
       /\ input' = data
       /\ output' = prepareStateChartData(data)
       /\ argument' = ArgumentAfter("prepareStateChartData", data)
  /\ op' = "prepareStateChartData"
  /\ UNCHANGED <<rawRows, criteria, pageVars>>

YearChart ==
  /\ op = "start"
  /\ \E data \in SeqsUpTo(DerivedRecords, MaxLen) :
       /\ input' = data
       /\ output' = prepareYearChartData(data)
       /\ argument' = ArgumentAfter("prepareYearChartData", data)
  /\ op' = "prepareYearChartData"
  /\ UNCHANGED <<rawRows, criteria, pageVars>>

Benchmarks ==
  /\ op = "start"
  /\ \E data \in SeqsUpTo(DerivedRecords, MaxLen) :
       /\ input' = data
       /\ output' = calculateBenchmarks(data)
       /\ argument' = ArgumentAfter("calculateBenchmarks", data)
  /\ op' = "calculateBenchmarks"
  /\ UNCHANGED <<rawRows, criteria, pageVars>>

SpecDerive == CoreStart /\ [][Metrics \/ StateChart \/ YearChart \/ Benchmarks]_vars

\* C12: the benchmark engine hands no NaN and no infinite value to the
\* display: when the first year's total loss (or gain) is exactly zero and
\* there are at least 2 distinct years, calculateBenchmarks emits no trend
\* benchmark whose value is NaN or +/-Infinity.
C12_TrendValuesFinite ==
  op = "calculateBenchmarks" =>
    \A i \in 1..Len(output) : output[i].type = "trend" => output[i].value.k = "fin"

\* C13: calculateBenchmarks returns the empty list for the empty collection;
\* for a collection of exactly one region and one year it returns exactly five
\* entries: the three 'overall' benchmarks, then 'Best Performing State' and
\* 'Most Challenged State' naming that same region with the same value, and
\* no 'trend' entry.
C13_SingleRegionSingleYear ==
  op = "calculateBenchmarks" =>
    /\ input = <<>> => output = <<>>
    /\ (/\ Cardinality({input[i].state : i \in 1..Len(input)}) = 1
        /\ Cardinality({input[i].year : i \in 1..Len(input)}) = 1) =>
         /\ Len(output) = 5
         /\ \A i \in 1..3 : output[i].type = "overall"
         /\ output[4].type = "state" /\ output[4].name = "Best Performing State"
         /\ output[5].type = "state" /\ output[5].name = "Most Challenged State"
         /\ output[4].state = input[1].state
         /\ output[5].state = input[1].state
         /\ output[4].value = output[5].value
         /\ \A i \in 1..Len(output) : output[i].type # "trend"

\* two different records of one region and one year went through the
\* benchmark engine
C13_Witness ==
  /\ op = "calculateBenchmarks"
  /\ Len(input) = 2
  /\ input[1] # input[2]
  /\ input[1].state = input[2].state
  /\ input[1].year = input[2].year
  /\ Len(output) = 5
  /\ output[5].state = Str("GA")

\* C14: prepareYearChartData returns exactly one bucket per distinct year of
\* its input, in strictly ascending order of year whatever the order of the
\* input, and the buckets' deforestation values add up to
\* calculateMetrics(input).totalDeforestation, the reforestation values to
\* calculateMetrics(input).totalReforestation.
C14_YearBuckets ==
  op = "prepareYearChartData" =>
    LET ys == {Number(input[i].year) : i \in 1..Len(input)}
        BucketDef(b) == b.deforestation
        BucketRef(b) == b.reforestation
    IN  /\ Len(output) = Cardinality(ys)
        /\ \A y \in ys : \E i \in 1..Len(output) : output[i].name = Str(NumToString(y))
        /\ \A i \in 1..Len(output), j \in 1..Len(output) :
             i < j => NLt(Number(output[i].name), Number(output[j].name))
        /\ Sum(output, BucketDef) = calculateMetrics(input).totalDeforestation
        /\ Sum(output, BucketRef) = calculateMetrics(input).totalReforestation

\* the later year came first in the input, the earlier year comes first in the
\* buckets
C14_Witness ==
  /\ op = "prepareYearChartData"
  /\ Len(input) = 2
  /\ input[1].year = Int2V(2019) /\ input[2].year = Int2V(2018)
  /\ Len(output) = 2
  /\ output[1].name = Str("2018") /\ output[2].name = Str("2019")
  /\ output[2].deforestation = Fin(100)

\* C15: prepareStateChartData returns one bucket per distinct state string of
\* its input, in the order in which the states are first met, and each
\* bucket's deforestation, reforestation and netChange are the sums of those
\* fields over the records of that state.
C15_StateBuckets ==
  op = "prepareStateChartData" =>
    LET states == {input[i].state : i \in 1..Len(input)}
        FirstAt(st) == CHOOSE i \in 1..Len(input) :
                         input[i].state = st /\ \A j \in 1..(i - 1) : input[j].state # st
        Net(row) == Number(row.netChange)
        Of(st) == LET in(row) == row.state = st IN SelectSeq(input, in)
    IN  /\ Len(output) = Cardinality(states)
        /\ {output[i].name : i \in 1..Len(output)} = states
        /\ \A i \in 1..Len(output), j \in 1..Len(output) :
             i < j => FirstAt(output[i].name) < FirstAt(output[j].name)
        /\ \A i \in 1..Len(output) :
             /\ output[i].deforestation = Sum(Of(output[i].name), Def)
             /\ output[i].reforestation = Sum(Of(output[i].name), Ref)
             /\ output[i].netChange = Sum(Of(output[i].name), Net)

\* the region met first is not the first by name, and one of the records has
\* a netChange that is not its gain minus its loss
C15_Witness ==
  /\ op = "prepareStateChartData"
  /\ Len(input) = 2
  /\ input[1].state = Str("KA") /\ input[2].state = Str("GA")
  /\ input[2].netChange = Int2V(9)
  /\ Len(output) = 2
  /\ output[1].name = Str("KA") /\ output[2].name = Str("GA")
  /\ output[2].netChange = Fin(9)

\* C16: calculateMetrics returns totalDeforestation and totalReforestation
\* equal to the sums of those fields over all records, and netChange equal to
\* totalReforestation - totalDeforestation; for the empty collection all
\* three are 0 and no error is raised.
C16_MetricsAreSums ==
  op = "calculateMetrics" =>
    LET \* the sum of the numbers F(input[i]), record after record
        Total(F(_)) ==
          LET t[i \in 0..Len(input)] == IF i = 0 THEN Zero ELSE NAdd(t[i - 1], F(input[i]))
          IN  t[Len(input)]
        Loss(row) == row.deforestation.num
        Gain(row) == row.reforestation.num
    IN  /\ output.totalDeforestation = Total(Loss)
        /\ output.totalReforestation = Total(Gain)
        /\ output.netChange = NSub(output.totalReforestation, output.totalDeforestation)
        /\ input = <<>> =>
             output = [totalDeforestation |-> Zero, totalReforestation |-> Zero,
                       netChange |-> Zero]

\* two records with losses 100 and 80 and gains 0 and 50 were totalled
C16_Witness ==
  /\ op = "calculateMetrics"
  /\ Len(input) = 2
  /\ output.totalDeforestation = Fin(180)
  /\ output.totalReforestation = Fin(50)
  /\ output.netChange = Fin(-130)

\* C22: for every collection with at least 2 distinct years
\* calculateBenchmarks emits exactly two trend benchmarks, whose values are
\* (last - first) / first * 100 on the loss totals and on the gain totals of
\* the numerically smallest and the numerically largest year present, and
\* whose period is '<smallest year>-<largest year>', also when the years have
\* different numbers of digits.
C22_TrendFromSmallestToLargestYear ==
  op = "calculateBenchmarks" =>
    LET ys == {Number(input[i].year) : i \in 1..Len(input)}
        Of(y) == LET in(row) == Number(row.year) = y IN SelectSeq(input, in)
        trends == {i \in 1..Len(output) : output[i].type = "trend"}
    IN  Cardinality(ys) >= 2 =>
          LET last == CHOOSE y \in ys : \A z \in ys : NLe(z, y)
              first == CHOOSE y \in ys : \A z \in ys : NLe(y, z)
              Change(a, b) == NMul(NDiv(NSub(b, a), a), Fin(100))
          IN  /\ Cardinality(trends) = 2
              /\ \E i \in trends :
                   output[i].value = Change(Sum(Of(first), Def), Sum(Of(last), Def))
              /\ \E i \in trends :
                   output[i].value = Change(Sum(Of(first), Ref), Sum(Of(last), Ref))
              /\ \A i \in trends :
                   output[i].period = NumToString(first) \o "-" \o NumToString(last)

(***************************************************************************)
(* The core operations side by side (SpecCore).                            *)
(***************************************************************************)
SpecCore ==
  CoreStart /\ [][CleanSupplied \/ Filter \/ Project \/ Metrics \/ StateChart \/ YearChart
                   \/ Benchmarks]_vars

C3_DisplayedIsFilterOfOriginal ==
  filteredData = filterData(originalData, filterValues)

\* C4: when the cleaning of an uploaded file leaves zero records, the upload
\* ends in the error status with the 'no data found' message and onDataLoaded
\* is not invoked.
C4_EmptyCleanedIsError ==
  (lastUpload.cleaned /\ Len(lastUpload.cleanerOutput) = 0) =>
    /\ lastUpload.outcome = "error"
    /\ lastUpload.message = Str(NoDataMessage)
    /\ ~lastUpload.delivered

\* C5: on every supported upload path, every raw row has gone through
\* processRow by the time the collection is handed to preprocessData.
C5_RowsNormalizedBeforeCleaning ==
  lastUpload.cleaned => lastUpload.processRowCalls = lastUpload.rawRows

\* C8: every record preprocessData returns has a non-empty state, a year
\* with 1900 < year <= current calendar year, deforestation >= 0 and
\* reforestation >= 0.
C8_CleanedRecordsValid ==
  lastUpload.cleaned =>
    \A i \in 1..Len(lastUpload.cleanerOutput) :
      LET r == lastUpload.cleanerOutput[i]
      IN  /\ r.state.typ = "string" /\ r.state.str # ""
          /\ NGt(Number(r.year), Fin(1900))
          /\ NLe(Number(r.year), Fin(CurrentYear))
          /\ NGe(Number(r.deforestation), Zero)
          /\ NGe(Number(r.reforestation), Zero)

C23_BucketNetChange ==
  lastUpload.delivered =>
    LET BucketNet(b) == b.netChange
        Consistent(buckets) ==
          /\ \A i \in 1..Len(buckets) :
               buckets[i].netChange
                 = NSub(buckets[i].reforestation, buckets[i].deforestation)
          /\ Sum(buckets, BucketNet) = calculateMetrics(lastUpload.cleanerOutput).netChange
    IN  /\ Consistent(prepareStateChartData(lastUpload.cleanerOutput))
        /\ Consistent(prepareYearChartData(lastUpload.cleanerOutput))

(***************************************************************************)
(* The handlers of the page taken alone (SpecDash): onDataLoaded is called *)
(* with a cleaned collection, and the sidebar's controls are used.          *)
(***************************************************************************)
\* records of files: two regions, two years, one pair of amounts with a
\* negative loss
LoadedRecords ==
  {Canonical(st, y, a[1], a[2]) :
     st \in {"KA", "GA"}, y \in {2018, 2019}, a \in {<<5, 7>>, <<-5, 3>>}}

\* the FileUpload on the page calls onDataLoaded(preprocessData(data)) for a
\* non-empty data
DataLoaded ==
  /\ showUpload
  /\ \E data \in SeqsUpTo(LoadedRecords, MaxLen) :
       /\ Len(data) > 0
       /\ handleDataLoaded(preprocessData(data))
  /\ UNCHANGED uploadFrame

SpecDash ==
  Init /\ [][DataLoaded \/ handleStateChange \/ handleYearChange \/ handleDateRangeChange
              \/ handleResetFilters \/ handlePreprocessData]_vars

\* C26: after every handler of the page (a dataset is loaded, a filter is
\* changed, the filters are reset, Preprocess is pressed) the derived outputs
\* are those of the filtered collection: metrics is
\* calculateMetrics(filteredData), stateChartData is
\* prepareStateChartData(filteredData), yearChartData is
\* prepareYearChartData(filteredData), benchmarks is
\* calculateBenchmarks(filteredData) and projections is
\* calculateProjections(filteredData).
C26_DerivedFollowFiltered ==
  /\ metrics = calculateMetrics(filteredData)
  /\ stateChartData = prepareStateChartData(filteredData)
  /\ yearChartData = prepareYearChartData(filteredData)
  /\ benchmarks = calculateBenchmarks(filteredData)
  /\ projections = calculateProjections(filteredData)

\* a region was selected on a dataset of two regions and two years: the
\* outputs are those of the one record kept, no longer those of the dataset
C26_Witness ==
  /\ Len(originalData) = 2
  /\ filterValues.state = Str("KA")
  /\ Len(filteredData) = 1
  /\ Len(stateChartData) = 1
  /\ Len(prepareStateChartData(originalData)) = 2
  /\ calculateProjections(originalData) # <<>>
  /\ projections = <<>>
  /\ metrics = calculateMetrics(filteredData)

\* Preprocess was pressed on a loaded dataset and changed a record of it
C26_WitnessPreprocess ==
  /\ isDataLoaded
  /\ filterValues = NoFilters
  /\ filteredData # originalData
  /\ Len(filteredData) = Len(originalData)
  /\ stateChartData = prepareStateChartData(filteredData)
  /\ stateChartData # prepareStateChartData(originalData)

(***************************************************************************)
(* Claims about uploads that overlap (SpecUpload).                         *)
(***************************************************************************)
\* C27: when a file is dropped while the decoding of an earlier one is
\* pending, the page ends with the file dropped last: once the decoding of
\* the later file has settled, the settling of the earlier one changes
\* neither originalData nor the upload status and its message.  (lastUpload
\* is the onDrop call that ended last: here that of the file dropped last,
\* which went through its decoding.)
C27_LatestDropWins ==
  [][\A p \in pending :
       (/\ p \notin pending'
        /\ p.n < drops
        /\ lastUpload.n = drops
        /\ lastUpload.kind # "unsupported")
       => /\ originalData' = originalData
          /\ uploadStatus' = uploadStatus
          /\ error' = error]_vars

\* C28: an upload that ends in error leaves the page as it was before the
\* drop: originalData, filteredData, filterValues, filterOptions and the
\* derived outputs (metrics, both chart collections, benchmarks,
\* projections) are unchanged by the drop and by the step in which onDrop
\* ends in its catch block.
C28_FailedUploadKeepsPage ==
  [][(\/ pending' # pending /\ pending \subseteq pending'
      \/ lastUpload' # lastUpload /\ lastUpload'.outcome = "error")
     => UNCHANGED <<originalData, filteredData, filterValues, filterOptions, derivedVars>>]_vars

\* a file without data rows was dropped on a page that shows a dataset: its
\* upload ended in error after decoding, and the page still shows the dataset
C28_Witness ==
  /\ lastUpload.n = 2
  /\ lastUpload.name = "plots.txt"
  /\ lastUpload.outcome = "error"
  /\ lastUpload.message = Str(NoDataMessage)
  /\ uploadStatus = "error"
  /\ isDataLoaded
  /\ originalData # <<>>
  /\ filteredData = originalData
  /\ metrics = calculateMetrics(originalData)

(***************************************************************************)
(* The uploads with decoders that settle (SpecUploadFair): a FileReader    *)
(* fires onload or onerror and a parser calls complete or error, so the    *)
(* await of a pending onDrop call does not stay suspended for ever.        *)
(***************************************************************************)
\* the step of DecodeDone, DecodeRejected or ReadFailed: the await of one
\* pending onDrop call settles
DecodeSettles == \E p \in pending : pending' = pending \ {p}

SpecUploadFair == SpecUpload /\ WF_pending(DecodeSettles)

\* C29: every upload started by a drop whose decoder completes or fails ends:
\* its onDrop call sets the status 'success' or 'error', and the mounted
\* upload area then shows that status instead of 'uploading'; it sets
\* 'success' only after it has called onDataLoaded with the cleaned
\* collection; and the status 'error' always comes with a message that is
\* not null.
C29_UploadEnds ==
  /\ \A n \in 1..MaxDrops :
       (\E p \in pending : p.n = n)
         ~> (lastUpload.n = n /\ lastUpload.outcome \in {"success", "error"})
  /\ [][\A p \in pending :
          p \notin pending' =>
            /\ lastUpload'.n = p.n
            /\ p.inst = instance =>
                 /\ uploadStatus' \in {"success", "error"}
                 /\ uploadStatus' = lastUpload'.outcome
            /\ lastUpload'.outcome = "success" =>
                 /\ lastUpload'.cleaned /\ lastUpload'.delivered
                 /\ originalData' = lastUpload'.cleanerOutput
                 /\ lastUpload'.cleanerOutput = preprocessData(Decoded(p.file, uuid))]_vars
  /\ [](uploadStatus = "error" => error # Null)
  /\ [](lastUpload.outcome = "error" => lastUpload.message # Null)

\* two files were dropped one after the other on the same upload area and
\* both decodings have settled: the first ended in error and the second,
\* settling last, in success
C29_Witness ==
  /\ drops = 2
  /\ pending = {}
  /\ lastUpload.n = 2
  /\ lastUpload.outcome = "success"
  /\ lastUpload.delivered
  /\ uploadStatus = "success"
  /\ error = Null
  /\ originalData = lastUpload.cleanerOutput

\* a drop ended in error and the upload area shows its message
C29_WitnessError ==
  /\ pending = {}
  /\ lastUpload.outcome = "error"
  /\ lastUpload.rawRows = 0
  /\ lastUpload.kind = "json"
  /\ uploadStatus = "error"
  /\ error = lastUpload.message
  /\ error # Null

\* C30: the column resolver never binds one raw key to two canonical fields:
\* any two of stateField, yearField, deforestationField and
\* reforestationField that are resolved (not '') are different keys.
C30_FieldsBoundToDistinctKeys ==
  op = "processRow" =>
    \A i \in 1..Len(rawRows) :
      LET Distinctly(fields) ==
            \A a, b \in 1..Len(fields) :
              (a < b /\ fields[a] # "" /\ fields[b] # "") => fields[a] # fields[b]
          Fields(m) ==
            <<m.stateField, m.yearField, m.deforestationField, m.reforestationField>>
      IN  Distinctly(Fields(identifyColumnMapping(rawRows[i])))

====
